---------------------------- MODULE Spec2Model ----------------------------
(***************************************************************************)
(* Model of paddle/framework/op_registry.h (OpProtoAndCheckerMaker and     *)
(* OpRegistry) and of paddle/framework/net.cc (PlainNet).                  *)
(*                                                                         *)
(* Strings are TLA+ strings, std::vector is a sequence (1-based here,      *)
(* 0-based in the source: positions stored in the maps are the source's    *)
(* 0-based ones), std::unordered_map is a function whose DOMAIN is the set *)
(* of keys present, a shared_ptr<VarIndexMap> is a reference into `heap`.  *)
(***************************************************************************)
EXTENDS Integers, Sequences, FiniteSets, TLC

VARIABLES
  maker,          \* the OpProtoAndCheckerMaker being driven declaration by declaration
  phase,          \* "init": static registration, "run": after it, "aborted": a registration threw
  creators,       \* OpRegistry::creators()      : set of kind names present
  grad_creators,  \* OpRegistry::grad_creators() : set of kind names present
  protos,         \* OpRegistry::protos()        : kind -> OpProto
  op_checkers,    \* OpRegistry::op_checkers()   : kind -> OpAttrChecker
  VarIndexMaps,   \* OpRegistry::VarIndexMaps()  : kind -> reference to a VarIndexMap
  heap,           \* the VarIndexMap objects alive: reference -> (name -> position)
  gUniqId,        \* the static std::atomic<size_t> of GenerateTempVariableName
  pc,             \* per thread: position inside CreateOp
  cur,            \* per thread: the raw OperatorBase* `op` of the CreateOp in progress
  ret,            \* per thread: how its last call ended
  ops,            \* the OperatorPtrs CreateOp has returned, in order of return
  grad_op,        \* the OperatorPtr the last CreateGradOp returned
  generated,      \* every temporary name generated so far, in order of generation
  ops_,           \* PlainNet::ops_ : the nodes of the net, in order
  call,           \* the PlainNet pass in progress, "none" outside a pass
  it,             \* the iterator of the range-for of the pass in progress (1-based)
  passes,         \* the passes started on the net so far, each with how it ended
  trace           \* every node operation invoked so far, in order of invocation

vars == <<maker, phase, creators, grad_creators, protos, op_checkers,
          VarIndexMaps, heap, gUniqId, pc, cur, ret, ops, grad_op, generated,
          ops_, call, it, passes, trace>>

registry == <<creators, grad_creators, protos, op_checkers, VarIndexMaps, heap>>
runstate == <<gUniqId, pc, cur, ret, ops, grad_op, generated>>
netstate == <<ops_, call, it, passes, trace>>

----------------------------------------------------------------------------
(* Bounds of the model.                                                    *)

MaxDecls == 3      \* declarations issued to one maker driven step by step
MaxOps == 2        \* nodes the callers of CreateOp hold at once
MaxUniqId == 3     \* CreateOp is not started once gUniqId has reached this
MaxNetOps == 3     \* nodes assembled into one PlainNet
MaxPasses == 2     \* passes (InferShape or Run) started on one PlainNet

----------------------------------------------------------------------------
(* Generic helpers for maps and sequences.                                 *)

EmptyMap == [k \in {} |-> 0]

\* m[k] = v of std::unordered_map: inserts or overwrites.
MapSet(m, k, v) == (k :> v) @@ m

\* m.erase(k)
MapErase(m, k) == [x \in (DOMAIN m) \ {k} |-> m[x]]

\* m[k] with operator[]'s default-constructed value for an absent key.
MapGet(m, k, default) == IF k \in DOMAIN m THEN m[k] ELSE default

SeqMap(Op(_), s) == [i \in 1..Len(s) |-> Op(s[i])]

Range(s) == {s[i] : i \in 1..Len(s)}

\* Number of positions of s holding x.
Count(s, x) == Cardinality({i \in 1..Len(s) : s[i] = x})

----------------------------------------------------------------------------
(* Names.                                                                  *)

\* OperatorBase::TMP_VAR_NAME() and OperatorBase::GRAD_VAR_SUFFIX()
\* (operator.h): the auto-temporary sentinel and the gradient suffix.
TMP_VAR_NAME == "@TEMP@"
GRAD_VAR_SUFFIX == "@GRAD"

Digit == <<"0", "1", "2", "3", "4", "5", "6", "7", "8", "9">>

\* std::to_string(size_t): the decimal digits, most significant first.
RECURSIVE to_string(_)
to_string(n) ==
  IF n < 10 THEN Digit[n + 1]
  ELSE to_string(n \div 10) \o Digit[(n % 10) + 1]

GradName(name) == name \o GRAD_VAR_SUFFIX

----------------------------------------------------------------------------
(* OpProto, OpAttrChecker and OpProtoAndCheckerMaker.                      *)

\* A default-constructed OpProto / OpAttrChecker, as unordered_map's
\* operator[] makes them.
EmptyProto == [type |-> "", inputs |-> <<>>, outputs |-> <<>>, attrs |-> <<>>]
EmptyChecker == <<>>

\* OpProtoAndCheckerMaker(proto, op_checker): the flags start false.
NewMaker(proto, checker) ==
  [proto |-> proto, checker |-> checker, validated |-> FALSE,
   has_multiple_input |-> FALSE, has_multiple_output |-> FALSE,
   has_temporary_output |-> FALSE, error |-> FALSE]

\* OpAttrChecker::AddAttrChecker<T>(name): a checker with no default yet.
AddAttrChecker(checker, name) ==
  Append(checker, [name |-> name, has_default |-> FALSE, default |-> <<>>])

\* TypedAttrChecker<T>::SetDefault(value), called on the checker AddAttr has
\* just returned, which is the last one of the list.
SetDefault(mk, value) ==
  [mk EXCEPT !.checker[Len(mk.checker)] =
     [@ EXCEPT !.has_default = TRUE, !.default = value]]

AddAttr(mk, name, is_generated) ==
  [mk EXCEPT !.proto.attrs = Append(@, [name |-> name, generated |-> is_generated]),
             !.checker = AddAttrChecker(@, name)]

\* A mutant: the format attribute declared with an empty-list default, the
\* way temporary_index is.
SetHasMultipleWithDefault(mk, in_out, flag) ==
  IF ~flag THEN SetDefault(AddAttr(mk, in_out \o "_format", TRUE), <<>>) ELSE mk

\* A mutant: the attribute is injected whether or not the flag is set.
SetHasMultipleUnguarded(mk, in_out, flag) ==
  AddAttr(mk, in_out \o "_format", TRUE)

\* SetHasMultiple(in_out, flag): AddAttr(in_out + "_format", generated=true),
\* no SetDefault, then *flag = true; nothing when the flag is already set.
SetHasMultiple(mk, in_out, flag) ==
  IF ~flag THEN AddAttr(mk, in_out \o "_format", TRUE) ELSE mk

SetHasMultipleInput(mk) ==
  [SetHasMultiple(mk, "input", mk.has_multiple_input)
     EXCEPT !.has_multiple_input = TRUE]

SetHasMultipleOutput(mk) ==
  [SetHasMultiple(mk, "output", mk.has_multiple_output)
     EXCEPT !.has_multiple_output = TRUE]

\* A mutant: the flag is set but never tested.
SetHasTemporaryOutputUnguarded(mk) ==
  [SetDefault(AddAttr(mk, "temporary_index", TRUE), <<>>)
     EXCEPT !.has_temporary_output = TRUE]

SetHasTemporaryOutput(mk) ==
  IF ~mk.has_temporary_output
  THEN [SetDefault(AddAttr(mk, "temporary_index", TRUE), <<>>)
          EXCEPT !.has_temporary_output = TRUE]
  ELSE mk

AddInput(mk, name, multiple) ==
  LET m1 == [mk EXCEPT !.proto.inputs =
                         Append(@, [name |-> name, multiple |-> multiple])]
  IN IF multiple THEN SetHasMultipleInput(m1) ELSE m1

AddInputs(mk, name) == AddInput(mk, name, TRUE)

AddOutput(mk, name, temporary, multiple) ==
  LET m1 == [mk EXCEPT !.proto.outputs =
                         Append(@, [name |-> name, multiple |-> multiple,
                                    temporary |-> temporary])]
      m2 == IF multiple THEN SetHasMultipleOutput(m1) ELSE m1
  IN IF temporary THEN SetHasTemporaryOutput(m2) ELSE m2

AddOutputs(mk, name, temporary) == AddOutput(mk, name, temporary, TRUE)

NameOf(x) == x.name

\* The order in which CheckNoDuplicatedInOutAttrs visits the names.
DeclaredNames(proto) ==
  SeqMap(NameOf, proto.attrs) \o SeqMap(NameOf, proto.inputs)
    \o SeqMap(NameOf, proto.outputs)

\* The `checker` lambda run over the names from position i on, `names` being
\* the unordered_set so far: FALSE when a PADDLE_ENFORCE fails.
RECURSIVE CheckNames(_, _, _)
CheckNames(s, i, names) ==
  IF i > Len(s) THEN TRUE
  ELSE IF s[i] \in names THEN FALSE
  ELSE CheckNames(s, i + 1, names \cup {s[i]})

\* A mutant: the loop over the attributes is missing.
CheckNoDuplicatedInOut(proto) ==
  CheckNames(SeqMap(NameOf, proto.inputs) \o SeqMap(NameOf, proto.outputs), 1, {})

CheckNoDuplicatedInOutAttrs(proto) == CheckNames(DeclaredNames(proto), 1, {})

\* Validate(): validated_ = true, then the check; error = the check threw.
Validate(mk) ==
  [mk EXCEPT !.validated = TRUE,
             !.error = ~CheckNoDuplicatedInOutAttrs(mk.proto)]

----------------------------------------------------------------------------
(* A maker driven one declaration at a time (the body of a ProtoMakerType  *)
(* constructor, then Validate).                                            *)

MakerNames == {"X", "Out", "input_format"}

\* Declarations the maker's author wrote (the injected attributes are not).
UserDecls(mk) ==
  Len(mk.proto.inputs) + Len(mk.proto.outputs)
    + Cardinality({i \in 1..Len(mk.proto.attrs) : ~mk.proto.attrs[i].generated})

CanDeclare == ~maker.validated /\ UserDecls(maker) < MaxDecls

DeclAddInput ==
  /\ CanDeclare
  /\ \E name \in MakerNames, multiple \in BOOLEAN :
       maker' = AddInput(maker, name, multiple)
  /\ UNCHANGED <<phase, registry, runstate>>

DeclAddInputs ==
  /\ CanDeclare
  /\ \E name \in MakerNames : maker' = AddInputs(maker, name)
  /\ UNCHANGED <<phase, registry, runstate>>

DeclAddOutput ==
  /\ CanDeclare
  /\ \E name \in MakerNames, temporary \in BOOLEAN, multiple \in BOOLEAN :
       maker' = AddOutput(maker, name, temporary, multiple)
  /\ UNCHANGED <<phase, registry, runstate>>

DeclAddOutputs ==
  /\ CanDeclare
  /\ \E name \in MakerNames, temporary \in BOOLEAN :
       maker' = AddOutputs(maker, name, temporary)
  /\ UNCHANGED <<phase, registry, runstate>>

\* AddAttr<T>(name, comment) as a maker's author calls it, with or without
\* a chained SetDefault.
DeclAddAttr ==
  /\ CanDeclare
  /\ \E name \in MakerNames, has_default \in BOOLEAN :
       maker' = IF has_default
                THEN SetDefault(AddAttr(maker, name, FALSE), <<1>>)
                ELSE AddAttr(maker, name, FALSE)
  /\ UNCHANGED <<phase, registry, runstate>>

DeclValidate ==
  /\ ~maker.validated
  /\ maker' = Validate(maker)
  /\ UNCHANGED <<phase, registry, runstate>>

----------------------------------------------------------------------------
(* ProtoMakerType classes given to RegisterOp: each is the sequence of     *)
(* declarations its constructor issues.                                    *)

Decl(op, name, multiple, temporary, has_default) ==
  [op |-> op, name |-> name, multiple |-> multiple, temporary |-> temporary,
   has_default |-> has_default]

\* Two plain inputs, one plain output, no attribute.
MakerPlain ==
  << Decl("AddInput", "X", FALSE, FALSE, FALSE),
     Decl("AddInput", "Y", FALSE, FALSE, FALSE),
     Decl("AddOutput", "Out", FALSE, FALSE, FALSE) >>

\* An attribute with no default and one with a default; no multiple slot.
MakerRequired ==
  << Decl("AddInput", "X", FALSE, FALSE, FALSE),
     Decl("AddOutput", "Out", FALSE, FALSE, FALSE),
     Decl("AddAttr", "test_attr", FALSE, FALSE, FALSE),
     Decl("AddAttr", "scale", FALSE, FALSE, TRUE) >>

\* Two multiple inputs and a temporary output.
MakerGrouped ==
  << Decl("AddInputs", "X", TRUE, FALSE, FALSE),
     Decl("AddInputs", "W", TRUE, FALSE, FALSE),
     Decl("AddOutput", "Out", FALSE, TRUE, FALSE) >>

\* One input, a multiple output and a plain one.
MakerFanOut ==
  << Decl("AddInput", "X", FALSE, FALSE, FALSE),
     Decl("AddOutputs", "Out", TRUE, FALSE, FALSE),
     Decl("AddOutput", "Mid", FALSE, FALSE, FALSE) >>

ProtoMakers == {MakerPlain, MakerRequired, MakerGrouped, MakerFanOut}

ApplyDecl(mk, d) ==
  CASE d.op = "AddInput"   -> AddInput(mk, d.name, d.multiple)
    [] d.op = "AddInputs"  -> AddInputs(mk, d.name)
    [] d.op = "AddOutput"  -> AddOutput(mk, d.name, d.temporary, d.multiple)
    [] d.op = "AddOutputs" -> AddOutputs(mk, d.name, d.temporary)
    [] d.op = "AddAttr"    -> IF d.has_default
                              THEN SetDefault(AddAttr(mk, d.name, FALSE), <<1>>)
                              ELSE AddAttr(mk, d.name, FALSE)

\* The constructor of a ProtoMakerType: its declarations from position i on.
RECURSIVE RunMaker(_, _, _)
RunMaker(mk, prog, i) ==
  IF i > Len(prog) THEN mk ELSE RunMaker(ApplyDecl(mk, prog[i]), prog, i + 1)

----------------------------------------------------------------------------
(* VarIndexMap objects and the shared_ptrs to them.                        *)

\* `new VarIndexMap()`: an address no live object has.
NewRef(h) ==
  CHOOSE r \in 1..(Cardinality(DOMAIN h) + 1) :
    /\ r \notin DOMAIN h
    /\ \A q \in 1..(r - 1) : q \in DOMAIN h

\* The references some shared_ptr still holds.
HeldRefs(vim, nodes, g, c) ==
  {vim[k] : k \in DOMAIN vim}
    \cup {nodes[i].in_out_idxs_ : i \in 1..Len(nodes)}
    \cup {g.in_out_idxs_}
    \cup {c[t].in_out_idxs_ : t \in DOMAIN c}

\* shared_ptr's reference counting: an object no pointer holds is deleted.
Sweep(h, held) == [r \in (DOMAIN h) \cap held |-> h[r]]

\* for (auto& var : vars) varmap[var.name()] = idx++;  from position i on.
RECURSIVE PutNames(_, _, _, _)
PutNames(varmap, names, i, idx) ==
  IF i > Len(names) THEN varmap
  ELSE PutNames(MapSet(varmap, names[i], idx), names, i + 1, idx + 1)

\* A mutant: the outputs go on counting where the inputs stopped.
ForwardVarIndexMapNoReset(op_proto) ==
  PutNames(PutNames(EmptyMap, SeqMap(NameOf, op_proto.inputs), 1, 0),
           SeqMap(NameOf, op_proto.outputs), 1, Len(op_proto.inputs))

\* RegisterOp's index: inputs from 0, then idx = 0 again and the outputs.
ForwardVarIndexMap(op_proto) ==
  PutNames(PutNames(EmptyMap, SeqMap(NameOf, op_proto.inputs), 1, 0),
           SeqMap(NameOf, op_proto.outputs), 1, 0)

----------------------------------------------------------------------------
(* Registration (static initialisation).                                   *)

KindNames == {"add", "mul"}

\* RegisterOp<OpType, ProtoMakerType>(op_type). A PADDLE_ENFORCE that fails
\* inside a static initialiser ends the process: phase "aborted".
RegisterOp(op_type, prog) ==
  /\ phase = "init"
  /\ LET op_checker == MapGet(op_checkers, op_type, EmptyChecker)
         op_proto == MapGet(protos, op_type, EmptyProto)
         mk == Validate(RunMaker(NewMaker(op_proto, op_checker), prog, 1))
         typed == [mk.proto EXCEPT !.type = op_type]
         ref == NewRef(heap)
         vim == MapSet(VarIndexMaps, op_type, ref)
     IN /\ creators' = creators \cup {op_type}
        /\ op_checkers' = MapSet(op_checkers, op_type, mk.checker)
        /\ IF mk.error
           THEN /\ protos' = MapSet(protos, op_type, mk.proto)
                /\ phase' = "aborted"
                /\ UNCHANGED <<VarIndexMaps, heap>>
           ELSE /\ protos' = MapSet(protos, op_type, typed)
                /\ VarIndexMaps' = vim
                /\ heap' = Sweep(MapSet(heap, ref, ForwardVarIndexMap(typed)),
                                 HeldRefs(vim, ops, grad_op, cur))
                /\ UNCHANGED phase
  /\ UNCHANGED <<maker, grad_creators, runstate>>

\* RegisterGradOp<OpType>(op_type)
RegisterGradOp(op_type) ==
  /\ phase = "init"
  /\ grad_creators' = grad_creators \cup {op_type}
  /\ UNCHANGED <<maker, phase, creators, protos, op_checkers, VarIndexMaps,
                 heap, runstate>>

\* Static initialisation is over: main() runs.
StartRun ==
  /\ phase = "init"
  /\ phase' = "run"
  /\ UNCHANGED <<maker, registry, runstate>>

----------------------------------------------------------------------------
(* Initial state: the function-local statics before any registration.      *)

Threads == {"t1", "t2"}

\* A null OperatorBase* / OperatorPtr.
NullOp == [type_ |-> "", inputs_ |-> <<>>, outputs_ |-> <<>>,
           attrs_ |-> EmptyMap, in_out_idxs_ |-> 0]

\* What a thread's last call was and how it ended.
NoRet == [status |-> "none", type |-> "", attrs |-> EmptyMap]

Init ==
  /\ maker = NewMaker(EmptyProto, EmptyChecker)
  /\ phase = "init"
  /\ creators = {}
  /\ grad_creators = {}
  /\ protos = EmptyMap
  /\ op_checkers = EmptyMap
  /\ VarIndexMaps = EmptyMap
  /\ heap = EmptyMap
  /\ gUniqId = 0
  /\ pc = [t \in Threads |-> "idle"]
  /\ cur = [t \in Threads |-> NullOp]
  /\ ret = [t \in Threads |-> NoRet]
  /\ ops = <<>>
  /\ grad_op = NullOp
  /\ generated = <<>>
  /\ ops_ = <<>>
  /\ call = "none"
  /\ it = 0
  /\ passes = <<>>
  /\ trace = <<>>

----------------------------------------------------------------------------
(* CreateOp.                                                               *)

\* OpAttrChecker::Check(attrs): the attribute checkers in declaration order,
\* from position i on. An absent attribute gets its default, or the check
\* fails when the checker has none ("Attribute is required").
RECURSIVE Check(_, _, _)
Check(checker, i, attrs) ==
  IF i > Len(checker) THEN [ok |-> TRUE, attrs |-> attrs]
  ELSE IF checker[i].name \in DOMAIN attrs THEN Check(checker, i + 1, attrs)
  ELSE IF checker[i].has_default
       THEN Check(checker, i + 1, MapSet(attrs, checker[i].name, checker[i].default))
       ELSE [ok |-> FALSE, attrs |-> attrs]

\* creators().find(type) != creators().end()
Found(type) == type \in creators

\* A mutant: the lookup done with creators()[type], which inserts the key.
CreatorsAfterLookupInserting(type) == creators \cup {type}

\* creators() after the lookup: find() inserts nothing.
CreatorsAfterLookup(type) == creators

\* op_checkers().at(type).Check(attrs); at() itself throws on an absent key.
CheckAt(type, attrs) ==
  IF type \in DOMAIN op_checkers
  THEN Check(op_checkers[type], 1, attrs)
  ELSE [ok |-> FALSE, attrs |-> attrs]

\* A mutant: the attributes are bound but the checker's verdict is dropped.
BindUnchecked(type, inputs, outputs, attrs) ==
  [ok |-> TRUE,
   op |-> [type_ |-> type, inputs_ |-> inputs, outputs_ |-> outputs,
           attrs_ |-> CheckAt(type, attrs).attrs, in_out_idxs_ |-> 0]]

\* op = creator(); type_, inputs_, outputs_, attrs_ bound; then
\* op_checkers().at(type).Check(op->attrs_), which fills defaults in or throws.
BindAndCheck(type, inputs, outputs, attrs) ==
  LET chk == CheckAt(type, attrs)
  IN [ok |-> chk.ok,
      op |-> [type_ |-> type, inputs_ |-> inputs, outputs_ |-> outputs,
              attrs_ |-> chk.attrs, in_out_idxs_ |-> 0]]

SetRet(t, status, type, attrs) ==
  [ret EXCEPT ![t] = [status |-> status, type |-> type, attrs |-> attrs]]

\* CreateOp up to and including the attribute check. A failed lookup or a
\* failed check throws: the raw `op` is abandoned and nothing is returned.
CreateOpBegin(t, type, inputs, outputs, attrs) ==
  /\ phase = "run"
  /\ pc[t] = "idle"
  /\ gUniqId < MaxUniqId
  /\ creators' = CreatorsAfterLookup(type)
  /\ IF ~Found(type)
     THEN /\ ret' = SetRet(t, "not_found", type, attrs)
          /\ UNCHANGED <<pc, cur>>
     ELSE LET b == BindAndCheck(type, inputs, outputs, attrs)
          IN IF ~b.ok
             THEN /\ ret' = SetRet(t, "invalid", type, attrs)
                  /\ UNCHANGED <<pc, cur>>
             ELSE /\ cur' = [cur EXCEPT ![t] = b.op]
                  /\ pc' = [pc EXCEPT ![t] = "gen"]
                  /\ ret' = SetRet(t, "running", type, attrs)
  /\ UNCHANGED <<maker, phase, grad_creators, protos, op_checkers,
                 VarIndexMaps, heap, gUniqId, ops, grad_op, generated>>

\* The position of the first output still equal to the sentinel, 0 if none.
\* The loop of GenerateTempVariableName visits the positions in order and a
\* rewritten name is no longer the sentinel, so this is its next rewrite.
NextTemp(outputs) ==
  IF \E k \in 1..Len(outputs) : outputs[k] = TMP_VAR_NAME
  THEN CHOOSE k \in 1..Len(outputs) :
         /\ outputs[k] = TMP_VAR_NAME
         /\ \A j \in 1..(k - 1) : outputs[j] # TMP_VAR_NAME
  ELSE 0

\* outname += type_; outname += "@"; outname += std::to_string(id)
TempName(type, id) == TMP_VAR_NAME \o type \o "@" \o to_string(id)

\* A mutant: the counter is read but not advanced.
LoadOnly(v) == v

\* The value gUniqId holds after fetch_add(1) (size_t: no wrap within the
\* model's bounds).
FetchAdd(v) == v + 1

\* One atomic fetch_add of GenerateTempVariableName with the thread-local
\* iterations before it, or the end of the loop.
GenerateTempStep(t) ==
  /\ pc[t] = "gen"
  /\ LET k == NextTemp(cur[t].outputs_)
         name == TempName(cur[t].type_, gUniqId)
     IN IF k = 0
        THEN /\ pc' = [pc EXCEPT ![t] = "attach"]
             /\ UNCHANGED <<cur, gUniqId, generated>>
        ELSE /\ gUniqId' = FetchAdd(gUniqId)
             /\ cur' = [cur EXCEPT ![t].outputs_[k] = name]
             /\ generated' = Append(generated, name)
             /\ UNCHANGED pc
  /\ UNCHANGED <<maker, phase, registry, ret, ops, grad_op>>

\* The rest of CreateOp: the kind's index is attached when there is one,
\* op->Init(), and the node is returned to the caller.
CreateOpEnd(t) ==
  /\ pc[t] = "attach"
  /\ LET op == [cur[t] EXCEPT !.in_out_idxs_ =
                  IF cur[t].type_ \in DOMAIN VarIndexMaps
                  THEN VarIndexMaps[cur[t].type_] ELSE 0]
     IN ops' = Append(ops, op)
  /\ cur' = [cur EXCEPT ![t] = NullOp]
  /\ pc' = [pc EXCEPT ![t] = "idle"]
  /\ ret' = [ret EXCEPT ![t].status = "ok"]
  /\ UNCHANGED <<maker, phase, registry, gUniqId, grad_op, generated>>

\* A caller lets go of the i-th node it holds.
ReleaseOp(i) ==
  /\ i \in 1..Len(ops)
  /\ ops' = [j \in 1..(Len(ops) - 1) |-> IF j < i THEN ops[j] ELSE ops[j + 1]]
  /\ heap' = Sweep(heap, HeldRefs(VarIndexMaps, ops', grad_op, cur))
  /\ UNCHANGED <<maker, phase, creators, grad_creators, protos, op_checkers,
                 VarIndexMaps, gUniqId, pc, cur, ret, grad_op, generated>>

\* The caller lets go of the gradient node it holds.
ReleaseGradOp ==
  /\ grad_op # NullOp
  /\ grad_op' = NullOp
  /\ heap' = Sweep(heap, HeldRefs(VarIndexMaps, ops, NullOp, cur))
  /\ UNCHANGED <<maker, phase, creators, grad_creators, protos, op_checkers,
                 VarIndexMaps, gUniqId, pc, cur, ret, ops, generated>>

----------------------------------------------------------------------------
(* CreateGradOp.                                                           *)

\* A mutant: the gradients of the outputs are put before the outputs.
AssembleGradInOutSwapped(op) ==
  [inputs_ |-> op.inputs_ \o SeqMap(GradName, op.outputs_) \o op.outputs_,
   outputs_ |-> SeqMap(GradName, op.inputs_)]

\* AssembleGradInOut: grad inputs = inputs, outputs, gradients of outputs;
\* grad outputs = gradients of inputs.
AssembleGradInOut(op) ==
  [inputs_ |-> op.inputs_ \o op.outputs_ \o SeqMap(GradName, op.outputs_),
   outputs_ |-> SeqMap(GradName, op.inputs_)]

\* A mutant: idx is not set back to 0 before the gradients of the inputs.
GenerateGradArgOffsetNoReset(op_proto) ==
  LET ins == SeqMap(NameOf, op_proto.inputs)
      outs == SeqMap(NameOf, op_proto.outputs)
      m1 == PutNames(EmptyMap, ins, 1, 0)
      m2 == PutNames(m1, outs, 1, Len(ins))
      m3 == PutNames(m2, SeqMap(GradName, outs), 1, Len(ins) + Len(outs))
  IN PutNames(m3, SeqMap(GradName, ins), 1, Len(ins) + 2 * Len(outs))

\* GenerateGradArgOffset: the four loops over the proto's slots, idx running
\* on through the first three and starting at 0 again for the fourth.
GenerateGradArgOffset(op_proto) ==
  LET ins == SeqMap(NameOf, op_proto.inputs)
      outs == SeqMap(NameOf, op_proto.outputs)
      m1 == PutNames(EmptyMap, ins, 1, 0)
      m2 == PutNames(m1, outs, 1, Len(ins))
      m3 == PutNames(m2, SeqMap(GradName, outs), 1, Len(ins) + Len(outs))
  IN PutNames(m3, SeqMap(GradName, ins), 1, 0)

\* std::iota(v.begin(), v.end(), 0)
Iota(v) == [i \in 1..Len(v) |-> i - 1]

\* `has ? old = GetAttr(...) : old = std::vector<int>(size), std::iota(old...)`:
\* the comma binds looser than ?:, so the iota runs in both cases.
OldFormat(has, value, size) ==
  Iota(IF has THEN value ELSE [i \in 1..size |-> 0])

Shift(format, base) == [i \in 1..Len(format) |-> format[i] + base]

\* GenerateGradAttr
GenerateGradAttr(op, op_proto) ==
  LET stripped == MapErase(MapErase(op.attrs_, "input_format"), "output_format")
      has_in_format == "input_format" \in DOMAIN op.attrs_
      has_out_format == "output_format" \in DOMAIN op.attrs_
      old_in_format ==
        OldFormat(has_in_format, MapGet(op.attrs_, "input_format", <<>>),
                  Len(op_proto.inputs))
      old_out_format ==
        OldFormat(has_out_format, MapGet(op.attrs_, "output_format", <<>>),
                  Len(op_proto.outputs))
      in_format ==
        Shift(old_in_format, 0)
          \o Shift(old_out_format, Len(op.inputs_))
          \o Shift(old_in_format, Len(op.inputs_) + Len(op.outputs_))
      with_in == MapSet(stripped, "input_format", in_format)
  IN IF has_in_format \/ has_out_format
     THEN IF has_in_format
          THEN MapSet(with_in, "output_format", old_in_format)
          ELSE with_in
     ELSE stripped

\* CreateGradOp(op) on the i-th node held. grad_creators().at(type) throws
\* when the kind has no gradient creator.
CreateGradOp(t, i) ==
  /\ phase = "run"
  /\ pc[t] = "idle"
  /\ i \in 1..Len(ops)
  /\ LET op == ops[i]
         op_proto == MapGet(protos, op.type_, EmptyProto)
         io == AssembleGradInOut(op)
         ref == NewRef(heap)
         g == [type_ |-> op.type_, inputs_ |-> io.inputs_,
               outputs_ |-> io.outputs_,
               attrs_ |-> GenerateGradAttr(op, op_proto),
               in_out_idxs_ |-> ref]
     IN IF op.type_ \notin grad_creators
        THEN /\ ret' = SetRet(t, "no_grad", op.type_, EmptyMap)
             /\ UNCHANGED <<grad_op, heap>>
        ELSE /\ ret' = SetRet(t, "grad_ok", op.type_, EmptyMap)
             /\ grad_op' = g
             /\ heap' = Sweep(MapSet(heap, ref, GenerateGradArgOffset(op_proto)),
                              HeldRefs(VarIndexMaps, ops, g, cur))
  /\ UNCHANGED <<maker, phase, creators, grad_creators, protos, op_checkers,
                 VarIndexMaps, gUniqId, pc, cur, ops, generated>>

----------------------------------------------------------------------------
(* The sequential program: registration, then one thread that creates a   *)
(* node, derives its gradient node and lets go of it.                      *)

InputLists == {<<"a", "b">>, <<"a", "b", "c">>}

OutputLists == {<<"c">>, <<TMP_VAR_NAME, "d">>, <<"c", "d", TMP_VAR_NAME>>}

AttrMaps ==
  { EmptyMap,
    [test_attr |-> <<1>>],
    [scale |-> <<2>>],
    [input_format |-> <<0, 2, 3>>],
    [input_format |-> <<0, 1>>, temporary_index |-> <<0>>],
    [input_format |-> <<0, 2, 3>>, output_format |-> <<0, 2, 3>>],
    [output_format |-> <<0, 1, 2>>] }

\* The one kind name the sequential program uses (registered or not).
SeqKindNames == {"add"}

Next ==
  \/ \E k \in SeqKindNames, prog \in ProtoMakers :
       RegisterOp(k, prog) /\ UNCHANGED netstate
  \/ \E k \in SeqKindNames : RegisterGradOp(k) /\ UNCHANGED netstate
  \/ StartRun /\ UNCHANGED netstate
  \/ \E k \in KindNames, ins \in InputLists, outs \in OutputLists,
        attrs \in AttrMaps :
       /\ ops = <<>>
       /\ grad_op = NullOp
       /\ CreateOpBegin("t1", k, ins, outs, attrs)
       /\ UNCHANGED netstate
  \/ GenerateTempStep("t1") /\ UNCHANGED netstate
  \/ CreateOpEnd("t1") /\ UNCHANGED netstate
  \/ CreateGradOp("t1", 1) /\ UNCHANGED netstate
  \/ ReleaseOp(1) /\ UNCHANGED netstate
  \/ ReleaseGradOp /\ UNCHANGED netstate

Spec == Init /\ [][Next]_vars

----------------------------------------------------------------------------
(* The concurrent program: registration, then two threads inside CreateOp  *)
(* at once, the callers keeping every node returned.                       *)

ConcInputs == <<"a">>

ConcOutputLists ==
  {<<"c">>, <<TMP_VAR_NAME>>, <<TMP_VAR_NAME, "d", TMP_VAR_NAME>>}

\* An attribute map every maker's checker accepts.
ConcAttrs ==
  [test_attr |-> <<1>>, input_format |-> <<0, 1>>, output_format |-> <<0, 1, 2>>]

\* Threads inside CreateOp.
InFlight == Cardinality({t \in Threads : pc[t] # "idle"})

NextConc ==
  \/ \E k \in KindNames, prog \in ProtoMakers :
       RegisterOp(k, prog) /\ UNCHANGED netstate
  \/ StartRun /\ UNCHANGED netstate
  \/ \E t \in Threads, k \in KindNames, outs \in ConcOutputLists :
       /\ Len(ops) + InFlight < MaxOps
       /\ CreateOpBegin(t, k, ConcInputs, outs, ConcAttrs)
       /\ UNCHANGED netstate
  \/ \E t \in Threads : GenerateTempStep(t) /\ UNCHANGED netstate
  \/ \E t \in Threads : CreateOpEnd(t) /\ UNCHANGED netstate

SpecConc == Init /\ [][NextConc]_vars

NextMaker ==
  \/ DeclAddInput /\ UNCHANGED netstate
  \/ DeclAddInputs /\ UNCHANGED netstate
  \/ DeclAddOutput /\ UNCHANGED netstate
  \/ DeclAddOutputs /\ UNCHANGED netstate
  \/ DeclAddAttr /\ UNCHANGED netstate
  \/ DeclValidate /\ UNCHANGED netstate

SpecMaker == Init /\ [][NextMaker]_vars

----------------------------------------------------------------------------
(* PlainNet (net.cc).  The constructor leaves ops_ empty; the nodes are     *)
(* appended by AddOp before the first pass.  A node is named by its kind;   *)
(* the same kind may sit at several positions.  InferShape and Run are      *)
(* range-for loops over ops_: one step per iteration, so that every         *)
(* intermediate position of a pass is a state.  The operation of a node     *)
(* either returns or throws; net.cc catches nothing, so a throw leaves the  *)
(* loop and the pass.                                                       *)

NetNodes == {"add", "mul"}

NodeOutcomes == {"ok", "threw"}

\* net.h: append a node to the net; the order is fixed once a pass has run.
AddOp(node) ==
  /\ call = "none"
  /\ passes = <<>>
  /\ Len(ops_) < MaxNetOps
  /\ ops_' = Append(ops_, node)
  /\ UNCHANGED <<call, it, passes, trace>>
  /\ UNCHANGED <<maker, phase, registry, runstate>>

\* the range-for advances its iterator by one element
RangeSkip(i) == i + 2

RangeNext(i) == i + 1

\* `for (auto& op : ops_)` is entered: the iterator is at begin()
PassBegin(p) ==
  /\ call = "none"
  /\ Len(passes) < MaxPasses
  /\ call' = p
  /\ it' = 1
  /\ passes' = Append(passes, [pass |-> p, status |-> "running"])
  /\ UNCHANGED <<ops_, trace>>
  /\ UNCHANGED <<maker, phase, registry, runstate>>

\* one iteration: the operation of the node under the iterator is invoked
PassStep(p) ==
  /\ call = p
  /\ it <= Len(ops_)
  /\ trace' = Append(trace, [n |-> Len(passes), pass |-> p,
                             index |-> it - 1, node |-> ops_[it]])
  /\ \E out \in NodeOutcomes :
       IF out = "ok"
       THEN /\ it' = RangeNext(it)
            /\ UNCHANGED <<call, passes>>
       ELSE /\ it' = 0
            /\ call' = "none"
            /\ passes' = [passes EXCEPT ![Len(passes)].status = "threw"]
  /\ UNCHANGED ops_
  /\ UNCHANGED <<maker, phase, registry, runstate>>

\* the iterator has reached end(): the pass returns
PassEnd(p) ==
  /\ call = p
  /\ it > Len(ops_)
  /\ it' = 0
  /\ call' = "none"
  /\ passes' = [passes EXCEPT ![Len(passes)].status = "returned"]
  /\ UNCHANGED <<ops_, trace>>
  /\ UNCHANGED <<maker, phase, registry, runstate>>

InferShapeBegin == PassBegin("InferShape")
InferShapeStep == PassStep("InferShape")
InferShapeEnd == PassEnd("InferShape")

RunBegin == PassBegin("Run")
RunStep == PassStep("Run")
RunEnd == PassEnd("Run")

NextNet ==
  \/ \E node \in NetNodes : AddOp(node)
  \/ InferShapeBegin
  \/ InferShapeStep
  \/ InferShapeEnd
  \/ RunBegin
  \/ RunStep
  \/ RunEnd

SpecNet == Init /\ [][NextNet]_vars

----------------------------------------------------------------------------
(* Properties of CreateGradOp, checked under Spec. There the caller holds  *)
(* at most one forward node and CreateOp starts only when it holds no      *)
(* node, so a gradient node held together with a forward node was derived  *)
(* from that node.                                                         *)

\* C2: the gradient node's inputs are the forward inputs I, then the forward
\* outputs O, then each name of O with the gradient suffix, in O's order; its
\* outputs are each name of I with the gradient suffix, in I's order. Inputs
\* [a,b] and outputs [c] give [a,b,c,c@GRAD] and [a@GRAD,b@GRAD].
C2_GradInOut ==
  (Len(ops) = 1 /\ grad_op # NullOp) =>
    LET I == ops[1].inputs_
        O == ops[1].outputs_
        n == Len(ops[1].inputs_)
        m == Len(ops[1].outputs_)
    IN /\ Len(grad_op.inputs_) = n + 2 * m
       /\ \A i \in 1..n : grad_op.inputs_[i] = I[i]
       /\ \A j \in 1..m : /\ grad_op.inputs_[n + j] = O[j]
                          /\ grad_op.inputs_[n + m + j] = O[j] \o "@GRAD"
       /\ Len(grad_op.outputs_) = n
       /\ \A i \in 1..n : grad_op.outputs_[i] = I[i] \o "@GRAD"
       /\ (I = <<"a", "b">> /\ O = <<"c">>) =>
            /\ grad_op.inputs_ = <<"a", "b", "c", "c@GRAD">>
            /\ grad_op.outputs_ = <<"a@GRAD", "b@GRAD">>

\* C2 witness: the gradient node of a node with inputs [a,b], outputs [c].
C2_Witness ==
  /\ Len(ops) = 1
  /\ ops[1].inputs_ = <<"a", "b">>
  /\ ops[1].outputs_ = <<"c">>
  /\ grad_op # NullOp
  /\ grad_op.inputs_ = <<"a", "b", "c", "c@GRAD">>
  /\ ret["t1"].status = "grad_ok"

\* The index of the gradient node held: slot names and their gradients at
\* the offsets of the two spaces, in a map no other pointer holds.
C3_GradIndex ==
  grad_op # NullOp =>
    LET proto == protos[grad_op.type_]
        p == Len(protos[grad_op.type_].inputs)
        q == Len(protos[grad_op.type_].outputs)
        idx == heap[grad_op.in_out_idxs_]
    IN /\ grad_op.in_out_idxs_ \in DOMAIN heap
       /\ \A i \in 1..p :
            /\ idx[proto.inputs[i].name] = i - 1
            /\ idx[proto.inputs[i].name \o "@GRAD"] = i - 1
       /\ \A j \in 1..q :
            /\ idx[proto.outputs[j].name] = p + (j - 1)
            /\ idx[proto.outputs[j].name \o "@GRAD"] = p + q + (j - 1)
       /\ \A k \in DOMAIN VarIndexMaps : VarIndexMaps[k] # grad_op.in_out_idxs_
       /\ \A i \in 1..Len(ops) : ops[i].in_out_idxs_ # grad_op.in_out_idxs_

\* A step that returns a gradient node gives it a map that did not exist
\* before and leaves the forward nodes and the maps they point to as they were.
C3_GradStep ==
  (grad_op' # grad_op /\ grad_op' # NullOp) =>
    /\ grad_op'.in_out_idxs_ \notin DOMAIN heap
    /\ ops' = ops
    /\ VarIndexMaps' = VarIndexMaps
    /\ \A i \in 1..Len(ops) :
         /\ ops[i].in_out_idxs_ \in DOMAIN heap'
         /\ heap'[ops[i].in_out_idxs_] = heap[ops[i].in_out_idxs_]

\* C3: for a kind with p input slots and q output slots the gradient node's
\* index maps the i-th input slot name to i, the j-th output slot name to
\* p+j, the j-th gradient-suffixed output name to p+q+j and the i-th
\* gradient-suffixed input name to i (all 0-based); the map is freshly built
\* and owned by the gradient node alone, and the forward node's index is not
\* changed.
C3_GradArgOffset == [](C3_GradIndex) /\ [][C3_GradStep]_vars

\* C3 witness: a gradient node of a kind with p = 1 and q = 2 whose index
\* puts the second output at 2 and its gradient at 4, the forward node still
\* holding the kind's own index.
C3_Witness ==
  /\ Len(ops) = 1
  /\ grad_op # NullOp
  /\ Len(protos[grad_op.type_].inputs) = 1
  /\ Len(protos[grad_op.type_].outputs) = 2
  /\ heap[grad_op.in_out_idxs_]["Mid"] = 2
  /\ heap[grad_op.in_out_idxs_]["Mid@GRAD"] = 4
  /\ heap[grad_op.in_out_idxs_]["X@GRAD"] = 0
  /\ heap[ops[1].in_out_idxs_]["Mid"] = 1

\* C4 as claimed: a forward node carrying input_format F and no
\* output_format, with n inputs and m outputs, gets a gradient node whose
\* input_format is F, then F shifted by n, then F shifted by n+m, and whose
\* output_format is F.
C4_AsClaimed ==
  ( /\ Len(ops) = 1
    /\ grad_op # NullOp
    /\ "input_format" \in DOMAIN ops[1].attrs_
    /\ "output_format" \notin DOMAIN ops[1].attrs_ ) =>
    LET F == ops[1].attrs_["input_format"]
        n == Len(ops[1].inputs_)
        m == Len(ops[1].outputs_)
    IN /\ "input_format" \in DOMAIN grad_op.attrs_
       /\ "output_format" \in DOMAIN grad_op.attrs_
       /\ grad_op.attrs_["input_format"] =
            F \o [i \in 1..Len(F) |-> F[i] + n]
              \o [i \in 1..Len(F) |-> F[i] + n + m]
       /\ grad_op.attrs_["output_format"] = F

----------------------------------------------------------------------------
(* Properties of CreateOp's failures, checked under Spec. A step of        *)
(* CreateOpBegin is the whole of a CreateOp call that throws.              *)

\* C5: CreateOp for a kind name that was never given to RegisterOp fails with
\* a not-found error at the lookup: no node is built or returned, the
\* temporary-name counter is not advanced and no registry table is changed.
C5_NotFound ==
  [][\A t \in Threads, k \in KindNames, ins \in InputLists,
        outs \in OutputLists, attrs \in AttrMaps :
       (k \notin creators /\ CreateOpBegin(t, k, ins, outs, attrs)) =>
         /\ ret'[t].status = "not_found"
         /\ cur' = cur
         /\ pc' = pc
         /\ ops' = ops
         /\ grad_op' = grad_op
         /\ gUniqId' = gUniqId
         /\ generated' = generated
         /\ creators' = creators
         /\ grad_creators' = grad_creators
         /\ protos' = protos
         /\ op_checkers' = op_checkers
         /\ VarIndexMaps' = VarIndexMaps
         /\ heap' = heap]_vars

\* C5 witness: a call for an unregistered kind has ended not-found.
C5_Witness ==
  /\ ret["t1"].status = "not_found"
  /\ ret["t1"].type \notin creators
  /\ cur["t1"] = NullOp
  /\ ops = <<>>

\* Some attribute checker of the kind has no default and its attribute is
\* absent from attrs.
MissingRequired(k, attrs) ==
  /\ k \in DOMAIN op_checkers
  /\ \E i \in 1..Len(op_checkers[k]) :
       /\ ~op_checkers[k][i].has_default
       /\ op_checkers[k][i].name \notin DOMAIN attrs

\* C6: CreateOp for a registered kind with an attribute map that omits an
\* attribute declared without a default fails with a validation error: no
\* node is returned or left with the caller or the thread, and the
\* temporary-name counter is not advanced.
C6_MissingRequired ==
  [][\A t \in Threads, k \in KindNames, ins \in InputLists,
        outs \in OutputLists, attrs \in AttrMaps :
       (k \in creators /\ MissingRequired(k, attrs)
          /\ CreateOpBegin(t, k, ins, outs, attrs)) =>
         /\ ret'[t].status = "invalid"
         /\ cur'[t] = NullOp
         /\ pc'[t] = "idle"
         /\ ops' = ops
         /\ grad_op' = grad_op
         /\ gUniqId' = gUniqId
         /\ generated' = generated]_vars

\* C6 witness: a kind whose only attribute without a default is the declared
\* test_attr, called with a map that has scale alone, has ended invalid.
C6_Witness ==
  /\ ret["t1"].status = "invalid"
  /\ ret["t1"].attrs = [scale |-> <<2>>]
  /\ \E i \in 1..Len(op_checkers[ret["t1"].type]) :
       /\ op_checkers[ret["t1"].type][i].name = "test_attr"
       /\ ~op_checkers[ret["t1"].type][i].has_default
  /\ \A i \in 1..Len(protos[ret["t1"].type].attrs) :
       ~protos[ret["t1"].type].attrs[i].generated
  /\ cur["t1"] = NullOp
  /\ ops = <<>>

FormatNames == {"input_format", "output_format"}

\* The format attributes the kind's schema had injected.
DeclaredFormats(k) ==
  {protos[k].attrs[i].name : i \in
     {j \in 1..Len(protos[k].attrs) :
        protos[k].attrs[j].generated /\ protos[k].attrs[j].name \in FormatNames}}

\* attrs omits a format attribute of the kind and nothing else it requires.
OmitsFormatOnly(k, attrs) ==
  /\ k \in DOMAIN protos
  /\ k \in DOMAIN op_checkers
  /\ DeclaredFormats(k) \ DOMAIN attrs # {}
  /\ \A i \in 1..Len(op_checkers[k]) :
       \/ op_checkers[k][i].has_default
       \/ op_checkers[k][i].name \in DOMAIN attrs
       \/ op_checkers[k][i].name \in DeclaredFormats(k)

\* C9 as claimed: for a kind that declares a multiple input or output,
\* CreateOp with a map that omits the format attribute passes the attribute
\* check and the node's format attribute is the empty list.
C9_AsClaimed ==
  [][\A t \in Threads, k \in KindNames, ins \in InputLists,
        outs \in OutputLists, attrs \in AttrMaps :
       (k \in creators /\ OmitsFormatOnly(k, attrs)
          /\ CreateOpBegin(t, k, ins, outs, attrs)) =>
         /\ pc'[t] = "gen"
         /\ \A f \in DeclaredFormats(k) \ DOMAIN attrs :
              /\ f \in DOMAIN cur'[t].attrs_
              /\ cur'[t].attrs_[f] = <<>>]_vars

\* In every schema an injected format attribute is generated and has no
\* default; an injected temporary_index is generated and defaults to empty.
C9_Declared ==
  \A k \in DOMAIN protos :
    \A i \in 1..Len(protos[k].attrs) :
      (protos[k].attrs[i].generated /\ i <= Len(op_checkers[k])) =>
        /\ op_checkers[k][i].name = protos[k].attrs[i].name
        /\ protos[k].attrs[i].name \in FormatNames =>
             ~op_checkers[k][i].has_default
        /\ protos[k].attrs[i].name = "temporary_index" =>
             /\ op_checkers[k][i].has_default
             /\ op_checkers[k][i].default = <<>>

C9_Step ==
  \A t \in Threads, k \in KindNames, ins \in InputLists,
     outs \in OutputLists, attrs \in AttrMaps :
    /\ (k \in creators /\ OmitsFormatOnly(k, attrs)
          /\ CreateOpBegin(t, k, ins, outs, attrs)) =>
         /\ ret'[t].status = "invalid"
         /\ cur'[t] = NullOp
         /\ ops' = ops
    /\ (k \in creators /\ CreateOpBegin(t, k, ins, outs, attrs)
          /\ pc'[t] = "gen" /\ "temporary_index" \notin DOMAIN attrs
          /\ \E i \in 1..Len(protos[k].attrs) :
               protos[k].attrs[i].name = "temporary_index") =>
         cur'[t].attrs_["temporary_index"] = <<>>

\* C9 amended: the injected input_format / output_format attribute is
\* declared generated but with no default (only temporary_index gets the
\* empty-list default), so CreateOp with a map that omits the format
\* attribute of a kind with a multiple slot fails the attribute check and
\* returns no node; an omitted temporary_index becomes the empty list.
C9_FormatRequired == [](C9_Declared) /\ [][C9_Step]_vars

\* C9 witness: a kind with multiple inputs and a temporary output, called
\* with the empty attribute map, has ended invalid.
C9_Witness ==
  /\ ret["t1"].status = "invalid"
  /\ ret["t1"].attrs = EmptyMap
  /\ DeclaredFormats(ret["t1"].type) = {"input_format"}
  /\ \A i \in 1..Len(op_checkers[ret["t1"].type]) :
       op_checkers[ret["t1"].type][i].name \in {"input_format", "temporary_index"}
  /\ cur["t1"] = NullOp
  /\ ops = <<>>

----------------------------------------------------------------------------
(* Properties of the schema maker, checked under SpecMaker.                *)

\* The names of all attributes, inputs and outputs of a schema, as a bag:
\* how many declarations carry the name.
TimesDeclared(proto, name) ==
  Cardinality({i \in 1..Len(proto.attrs) : proto.attrs[i].name = name})
    + Cardinality({i \in 1..Len(proto.inputs) : proto.inputs[i].name = name})
    + Cardinality({i \in 1..Len(proto.outputs) : proto.outputs[i].name = name})

AllDeclared(proto) ==
  {proto.attrs[i].name : i \in 1..Len(proto.attrs)}
    \cup {proto.inputs[i].name : i \in 1..Len(proto.inputs)}
    \cup {proto.outputs[i].name : i \in 1..Len(proto.outputs)}

\* C7: Validate fails with a validation error exactly when some name occurs
\* more than once among the schema's attributes, inputs and outputs taken
\* together; a schema whose names are all distinct validates.
C7_ValidateIffDuplicate ==
  maker.validated =>
    (maker.error <=>
       \E name \in AllDeclared(maker.proto) :
         TimesDeclared(maker.proto, name) > 1)

\* C7 witness: Validate has thrown on a schema whose one repeated name is
\* shared by an attribute and a slot.
C7_Witness ==
  /\ maker.validated
  /\ maker.error
  /\ \E i \in 1..Len(maker.proto.attrs), j \in 1..Len(maker.proto.inputs) :
       maker.proto.attrs[i].name = maker.proto.inputs[j].name
  /\ Len(maker.proto.attrs) = 1
  /\ Len(maker.proto.inputs) = 1

\* How many attributes of the schema are injected ones of that name.
Injected(proto, name) ==
  Cardinality({i \in 1..Len(proto.attrs) :
                 proto.attrs[i].name = name /\ proto.attrs[i].generated})

\* C8: after any sequence of AddInput / AddInputs / AddOutput / AddOutputs
\* the schema holds exactly one injected input_format if some input is
\* multiple and none otherwise, exactly one injected output_format if some
\* output is multiple and none otherwise, and exactly one injected
\* temporary_index if some output is temporary and none otherwise.
C8_InjectedOnce ==
  /\ Injected(maker.proto, "input_format") =
       IF \E i \in 1..Len(maker.proto.inputs) : maker.proto.inputs[i].multiple
       THEN 1 ELSE 0
  /\ Injected(maker.proto, "output_format") =
       IF \E i \in 1..Len(maker.proto.outputs) : maker.proto.outputs[i].multiple
       THEN 1 ELSE 0
  /\ Injected(maker.proto, "temporary_index") =
       IF \E i \in 1..Len(maker.proto.outputs) : maker.proto.outputs[i].temporary
       THEN 1 ELSE 0

\* C8 witness: two multiple inputs and a temporary multiple output, and one
\* injected attribute of each name.
C8_Witness ==
  /\ Cardinality({i \in 1..Len(maker.proto.inputs) :
                    maker.proto.inputs[i].multiple}) = 2
  /\ \E i \in 1..Len(maker.proto.outputs) :
       maker.proto.outputs[i].multiple /\ maker.proto.outputs[i].temporary
  /\ Injected(maker.proto, "input_format") = 1
  /\ Injected(maker.proto, "output_format") = 1
  /\ Injected(maker.proto, "temporary_index") = 1

----------------------------------------------------------------------------
(* Properties of concurrent CreateOp calls, checked under SpecConc.        *)

\* The nodes in existence: those returned and those under construction.
Nodes == ops \o <<cur["t1"], cur["t2"]>>

\* The names the callers pass for variables of their own.
UserNames == {"a", "b", "c", "d"}

\* The places (node, output position) holding a generated name.
TempPlaces ==
  UNION { { <<i, j>> : j \in {h \in 1..Len(Nodes[i].outputs_) :
                                Nodes[i].outputs_[h] \notin
                                  UserNames \cup {TMP_VAR_NAME}} }
          : i \in 1..Len(Nodes) }

\* C1: whatever the interleaving of CreateOp calls on the same kind or on
\* different kinds, no two generated temporary names are equal, be they in
\* two nodes or in one; each is the sentinel, the kind name, "@" and a value
\* of the one counter, which hands out each value once and is never set back.
C1_UniqueTempNames ==
  /\ \A i, j \in 1..Len(generated) : i # j => generated[i] # generated[j]
  /\ Len(generated) = gUniqId
  /\ \A i \in 1..Len(generated) :
       \E k \in KindNames : generated[i] = "@TEMP@" \o k \o "@" \o to_string(i - 1)
  /\ \A x, y \in TempPlaces :
       x # y => Nodes[x[1]].outputs_[x[2]] # Nodes[y[1]].outputs_[y[2]]
  /\ \A x \in TempPlaces :
       /\ \E i \in 1..Len(generated) : generated[i] = Nodes[x[1]].outputs_[x[2]]
       /\ \E v \in 0..(gUniqId - 1) :
            Nodes[x[1]].outputs_[x[2]] =
              "@TEMP@" \o Nodes[x[1]].type_ \o "@" \o to_string(v)
  /\ \A i \in 1..Len(ops) :
       \A j \in 1..Len(ops[i].outputs_) : ops[i].outputs_[j] # TMP_VAR_NAME

\* C1 witness: two threads were inside the temporary-name loop of two nodes
\* of the same kind at once, each node asking for two temporaries, and the
\* values they drew interleave.
C1_Witness ==
  /\ Len(ops) = 2
  /\ ops[1].type_ = ops[2].type_
  /\ ops[1].outputs_ = <<"@TEMP@add@0", "d", "@TEMP@add@2">>
  /\ ops[2].outputs_ = <<"@TEMP@add@1", "d", "@TEMP@add@3">>

\* C10: the name index CreateOp attaches to a node is its kind's one index,
\* the same object for every node of the kind, and it gives the i-th declared
\* input name position i and the j-th declared output name position j, each
\* range starting at 0.
C10_ForwardIndex ==
  \A n \in 1..Len(ops) :
    LET k == ops[n].type_
        idx == heap[ops[n].in_out_idxs_]
    IN /\ k \in DOMAIN VarIndexMaps
       /\ ops[n].in_out_idxs_ = VarIndexMaps[k]
       /\ ops[n].in_out_idxs_ \in DOMAIN heap
       /\ \A i \in 1..Len(protos[k].inputs) : idx[protos[k].inputs[i].name] = i - 1
       /\ \A j \in 1..Len(protos[k].outputs) : idx[protos[k].outputs[j].name] = j - 1
       /\ \A m \in 1..Len(ops) :
            ops[m].type_ = k => ops[m].in_out_idxs_ = ops[n].in_out_idxs_

\* C10 witness: two nodes of a kind with two inputs and one output, no
\* multiple slot, share an index that puts Y at 1 and Out at 0, next to
\* another kind's index.
C10_Witness ==
  /\ Len(ops) = 2
  /\ ops[1].type_ = ops[2].type_
  /\ ops[1].in_out_idxs_ = ops[2].in_out_idxs_
  /\ ops[1].in_out_idxs_ # 0
  /\ Len(protos[ops[1].type_].inputs) = 2
  /\ Len(protos[ops[1].type_].outputs) = 1
  /\ protos[ops[1].type_].attrs = <<>>
  /\ heap[ops[1].in_out_idxs_] = [X |-> 0, Y |-> 1, Out |-> 0]
  /\ Cardinality(DOMAIN VarIndexMaps) = 2

----------------------------------------------------------------------------
\* The node operations pass p of the net has invoked, in order.
Visits(p) == SelectSeq(trace, LAMBDA e : e.n = p)

\* What one complete pass named p over ops_ invokes when it is the k-th pass.
FullPass(k, p) ==
  [j \in 1..Len(ops_) |->
     [n |-> k, pass |-> p, index |-> j - 1, node |-> ops_[j]]]

\* In every state, each pass started so far has invoked the node operations
\* of positions 0, 1, 2, ... of ops_ in that order, each once, under its own
\* pass name; a pass that has returned has invoked all of them; the passes
\* do not interleave; and InferShape followed by Run, both returned, have
\* invoked exactly InferShape on 0..n-1 and then Run on 0..n-1.
C11_InOrder ==
  /\ \A p \in 1..Len(passes) :
       LET v == Visits(p)
       IN /\ Len(v) <= Len(ops_)
          /\ \A j \in 1..Len(v) : v[j] = FullPass(p, passes[p].pass)[j]
          /\ passes[p].status = "returned" => Len(v) = Len(ops_)
          /\ (passes[p].status = "running" /\ p = Len(passes)) => Len(v) = it - 1
  /\ \A a \in 1..Len(trace) : \A b \in 1..Len(trace) :
       a < b => trace[a].n <= trace[b].n
  /\ \A e \in Range(trace) : e.n \in 1..Len(passes)
  /\ (passes = << [pass |-> "InferShape", status |-> "returned"],
                  [pass |-> "Run", status |-> "returned"] >>)
       => trace = FullPass(1, "InferShape") \o FullPass(2, "Run")

\* No step of a pass, and no step once a pass has been started, changes ops_.
C11_Step ==
  (passes' # <<>>) => (ops_' = ops_)

\* C11: for a net holding n nodes, InferShape followed by Run invokes the
\* operation of every node exactly once in each pass, in the order of the
\* list (InferShape on nodes 0..n-1, then Run on nodes 0..n-1), with no
\* reordering, skipping or repetition, and neither pass changes the sequence
\* of nodes.
C11_VisitsInOrder ==
  [](C11_InOrder) /\ [][C11_Step]_vars

\* C11 witness: a net of three nodes, the first and the last of the same
\* kind, after InferShape and then Run have both returned: six invocations.
C11_Witness ==
  /\ Len(ops_) = 3
  /\ ops_[1] = ops_[3]
  /\ ops_[1] # ops_[2]
  /\ call = "none"
  /\ passes = << [pass |-> "InferShape", status |-> "returned"],
                 [pass |-> "Run", status |-> "returned"] >>
  /\ Len(trace) = 6
  /\ trace[4] = [n |-> 2, pass |-> "Run", index |-> 0, node |-> ops_[1]]

=============================================================================
